---- MODULE Spec2Model ----
(***************************************************************************)
(* word.game backend: the game API router (POST /api/games and             *)
(* POST /api/games/:gameId/turns), the game-state service over the MongoDB *)
(* "games" collection, the database handle module and the start-up code.   *)
(*                                                                         *)
(* Words are sequences of one-character strings, so that toLowerCase,      *)
(* trim and the edit actions are computed character by character.          *)
(* Indices are 0-based as in the source; Word(i) style accessors add 1.    *)
(***************************************************************************)
EXTENDS Integers, Sequences, FiniteSets, TLC

(* ------------------------------ bounds --------------------------------- *)
\* longest finalWords list a client submits
MaxFinalWords == 2
\* number of games POST /api/games creates in one run
MaxGames == 1
\* number of HTTP turn requests that can be open at the same time
NumRequests == 2
\* MongoClients the db module makes at most
MaxClients == 2
\* calls of the db module waiting for the driver at a time, at most
MaxDbCalls == 2

(* --------------------------- characters, words -------------------------- *)
UpperCase == <<"A","B","C","D","E","F","G","H","I","J","K","L","M",
               "N","O","P","Q","R","S","T","U","V","W","X","Y","Z">>
LowerCase == <<"a","b","c","d","e","f","g","h","i","j","k","l","m",
               "n","o","p","q","r","s","t","u","v","w","x","y","z">>

\* String.prototype.toLowerCase on one character
LowerChar(c) ==
    IF \E i \in 1..26 : UpperCase[i] = c
    THEN LowerCase[CHOOSE i \in 1..26 : UpperCase[i] = c]
    ELSE c

\* String.prototype.toLowerCase
toLowerCase(w) == [i \in 1..Len(w) |-> LowerChar(w[i])]

IsSpace(c) == c = " "

RECURSIVE TrimLeft(_)
TrimLeft(w) == IF w # <<>> /\ IsSpace(Head(w)) THEN TrimLeft(Tail(w)) ELSE w

RECURSIVE TrimRight(_)
TrimRight(w) ==
    IF w # <<>> /\ IsSpace(w[Len(w)]) THEN TrimRight(SubSeq(w, 1, Len(w) - 1)) ELSE w

\* String.prototype.trim
trim(w) == TrimRight(TrimLeft(w))

cat  == <<"c","a","t">>
rat  == <<"r","a","t">>
Damn == <<"D","a","m","n">>
Blank == <<" ">>

\* the lines of words.txt (at least two words, or start-up stops)
WordsFile == <<cat, rat>>
\* the lines of block.txt, as written in the file
BlockFile == <<<<"d","a","m","n"," ">>, <<>>, <<"D","A","M","N">>>>

(* ------------------------- optional values ------------------------------ *)
\* null / undefined is the empty sequence, a present value v is <<v>>
None == <<>>
Some(v) == <<v>>

(* ----------------------------- start-up --------------------------------- *)
\* split(/\r?\n/).map(trim).filter(length > 0)
RECURSIVE TrimmedLines(_)
TrimmedLines(lines) ==
    IF lines = <<>> THEN <<>>
    ELSE LET w == trim(Head(lines))
         IN  IF Len(w) > 0 THEN <<w>> \o TrimmedLines(Tail(lines))
             ELSE TrimmedLines(Tail(lines))

\* loadWords: the trimmed non-empty lines; fewer than two is an error
loadWords(readable, lines) ==
    LET words == TrimmedLines(lines)
    IN  IF readable /\ Len(words) >= 2 THEN [ok |-> TRUE, words |-> words]
        ELSE [ok |-> FALSE, words |-> <<>>]

\* loadBlockList: the set of trimmed, lower-cased, non-empty lines
loadBlockList(readable, lines) ==
    IF readable
    THEN [ok |-> TRUE,
          set |-> {toLowerCase(TrimmedLines(lines)[i]) : i \in 1..Len(TrimmedLines(lines))}]
    ELSE [ok |-> FALSE, set |-> {}]

(* ------------------------ the games collection -------------------------- *)
GameStatuses == {"active", "completed", "failed"}

\* index of the first document with this gameId, 0 if there is none
FirstMatch(coll, gameId) ==
    IF \E i \in 1..Len(coll) : coll[i].gameId = gameId
    THEN CHOOSE i \in 1..Len(coll) :
            /\ coll[i].gameId = gameId
            /\ \A j \in 1..(i - 1) : coll[j].gameId # gameId
    ELSE 0

\* collection.findOne({gameId})
findOne(coll, gameId) ==
    IF FirstMatch(coll, gameId) = 0 THEN None ELSE Some(coll[FirstMatch(coll, gameId)])

\* replaceOne with a filter that every document matches
replaceOneAny(coll, gameId, doc) ==
    IF Len(coll) = 0 THEN Append(coll, doc)
    ELSE [coll EXCEPT ![1] = doc]

\* replaceOne that inserts whether or not a document matches the filter
replaceOneInsert(coll, gameId, doc) ==
    Append(coll, doc)

\* collection.replaceOne({gameId}, doc, {upsert: true})
replaceOne(coll, gameId, doc) ==
    IF FirstMatch(coll, gameId) = 0 THEN Append(coll, doc)
    ELSE [coll EXCEPT ![FirstMatch(coll, gameId)] = doc]

\* InitialGameState with a status outside the three of IGameState
InitialGameStateNew(gameId, startWord, targetWord) ==
    [gameId          |-> gameId,
     playerIds       |-> <<"player_001">>,
     targetWord      |-> <<targetWord>>,
     currentWords    |-> <<startWord>>,
     turnNumber      |-> 1,
     gameStatus      |-> "new",
     availableTwists |-> <<>>,
     history         |-> <<>>]

\* the state POST /api/games builds
InitialGameState(gameId, startWord, targetWord) ==
    [gameId          |-> gameId,
     playerIds       |-> <<"player_001">>,
     targetWord      |-> <<targetWord>>,
     currentWords    |-> <<startWord>>,
     turnNumber      |-> 1,
     gameStatus      |-> "active",
     availableTwists |-> <<>>,
     history         |-> <<>>]

(* -------------------------- dictionary lookup --------------------------- *)
\* what fetch(url) can do: a 2xx answer, a 404, another status, or a throw
FetchOutcomes == {"ok", "404", "status", "throw"}

\* validateWordWithApi returns before any fetch for an empty or blank word
IsEmptyWord(word) == Len(word) = 0 \/ Len(trim(word)) = 0

\* validateWordWithApi: the result object for a word and what fetch did
validateWordWithApi(word, outcome) ==
    IF IsEmptyWord(word)      THEN [isValid |-> FALSE, error |-> "Empty word submitted"]
    ELSE IF outcome = "ok"    THEN [isValid |-> TRUE,  error |-> ""]
    ELSE IF outcome = "404"   THEN [isValid |-> FALSE, error |-> "Word not found in dictionary"]
    ELSE IF outcome = "status" THEN [isValid |-> FALSE, error |-> "API error validating word"]
    ELSE                           [isValid |-> FALSE, error |-> "Network error validating word"]

\* one slot of validationPromises / validationResults: ref is the identity of
\* the result object, settled tells whether its promise has resolved
PendingResult(i) == [ref |-> i, settled |-> FALSE, isValid |-> FALSE, error |-> ""]
SettledResult(i, result) ==
    [ref |-> i, settled |-> TRUE, isValid |-> result.isValid, error |-> result.error]

\* finalWords.map(word => validateWordWithApi(word)): the calls run up to their
\* first await, so only the empty words are settled at once
StartValidation(finalWords) ==
    [i \in 1..Len(finalWords) |->
        IF IsEmptyWord(finalWords[i])
        THEN SettledResult(i, validateWordWithApi(finalWords[i], "ok"))
        ELSE PendingResult(i)]

\* Promise.race in the place of Promise.all: over as soon as one lookup is
AnySettled(results) == results = <<>> \/ \E i \in 1..Len(results) : results[i].settled

AllSettled(results) == \A i \in 1..Len(results) : results[i].settled

\* FindInvalid taking the last invalid result instead of the first
FindInvalidLast(results) ==
    IF \E i \in 1..Len(results) : ~results[i].isValid
    THEN Some(results[CHOOSE i \in 1..Len(results) :
                        /\ ~results[i].isValid
                        /\ \A j \in (i + 1)..Len(results) : results[j].isValid])
    ELSE None

\* validationResults.find(result => !result.isValid)
FindInvalid(results) ==
    IF \E i \in 1..Len(results) : ~results[i].isValid
    THEN Some(results[CHOOSE i \in 1..Len(results) :
                        /\ ~results[i].isValid
                        /\ \A j \in 1..(i - 1) : results[j].isValid])
    ELSE None

\* validationResults.indexOf(invalidResult), 0-based, by object identity
indexOf(results, result) ==
    IF \E i \in 1..Len(results) : results[i].ref = result.ref
    THEN (CHOOSE i \in 1..Len(results) :
            /\ results[i].ref = result.ref
            /\ \A j \in 1..(i - 1) : results[j].ref # result.ref) - 1
    ELSE -1

(* ---------------------------- profanity --------------------------------- *)
\* IsBlocked without the toLowerCase
IsBlockedExact(blockList, word) == word \in blockList

\* word => blockListSet.has(word.toLowerCase())
IsBlocked(blockList, word) == toLowerCase(word) \in blockList

\* finalWords.find(word => blockListSet.has(word.toLowerCase()))
FindProfane(blockList, finalWords) ==
    IF \E i \in 1..Len(finalWords) : IsBlocked(blockList, finalWords[i])
    THEN Some(finalWords[CHOOSE i \in 1..Len(finalWords) :
                        /\ IsBlocked(blockList, finalWords[i])
                        /\ \A j \in 1..(i - 1) : ~IsBlocked(blockList, finalWords[j])])
    ELSE None

(* ----------------------------- responses -------------------------------- *)
\* res.status(s).json({errorCode, offendingWord?, message})
ErrorResponse(status, errorCode, offendingWord, message) ==
    [status |-> status, isValid |-> None, errorCode |-> errorCode,
     offendingWord |-> offendingWord, message |-> message, gameState |-> None]

\* res.status(s).json({isValid, updatedGameState? , errorMessage?})
TurnResponse(status, isValid, errorCode, message, gameState) ==
    [status |-> status, isValid |-> Some(isValid), errorCode |-> errorCode,
     offendingWord |-> None, message |-> message, gameState |-> gameState]

\* res.status(201).json(initialGameState)
CreatedResponse(gameState) ==
    [status |-> 201, isValid |-> None, errorCode |-> "", offendingWord |-> None,
     message |-> "", gameState |-> Some(gameState)]

\* a handler's promise rejected: express-async-handler passes the error on
\* and express answers 500
UnhandledError(message) == ErrorResponse(500, "", None, message)

(* ------------------------------ turn input ------------------------------ *)
\* req.body of POST /api/games/:gameId/turns.  present is FALSE for a missing
\* body; actionsIsArray / finalWordsIsArray are Array.isArray of the fields
TurnInput(actions, finalWords) ==
    [present |-> TRUE, actionsIsArray |-> TRUE, actions |-> actions,
     finalWordsIsArray |-> TRUE, finalWords |-> finalWords]
NoBody == [present |-> FALSE, actionsIsArray |-> FALSE, actions |-> <<>>,
           finalWordsIsArray |-> FALSE, finalWords |-> <<>>]
BadActions == [present |-> TRUE, actionsIsArray |-> FALSE, actions |-> <<>>,
               finalWordsIsArray |-> TRUE, finalWords |-> <<cat>>]
BadFinalWords == [present |-> TRUE, actionsIsArray |-> TRUE, actions |-> <<>>,
                  finalWordsIsArray |-> FALSE, finalWords |-> <<>>]

\* !turnInput || !Array.isArray(actions) || !Array.isArray(finalWords) || length === 0
InvalidStructure(turnInput) ==
    \/ ~turnInput.present
    \/ ~turnInput.actionsIsArray
    \/ ~turnInput.finalWordsIsArray
    \/ Len(turnInput.finalWords) = 0

\* a LETTER_TWIST action with one SWAP twist
SwapAction(wordIndex, position, from, to) ==
    [type |-> "LETTER_TWIST", targetWordIndex |-> wordIndex,
     twists |-> <<[type |-> "SWAP", position |-> position, letter |-> "",
                   from |-> from, to |-> to]>>,
     mergeIndices |-> <<>>]

(* --------------------------- action simulator --------------------------- *)
\* The turn handler has no simulator (steps 4 and 5 are TODO comments), so
\* the replay of a turn's actions is modelled from the specification's 4.1.
SimOk(words) == [ok |-> TRUE, words |-> words, error |-> ""]
SimError(error) == [ok |-> FALSE, words |-> <<>>, error |-> error]

\* one ADD / DROP / SWAP on a word
ApplyTwist(word, twist) ==
    LET p == twist.position
    IN  IF twist.type = "ADD"
        THEN IF p \in 0..Len(word)
             THEN SimOk(SubSeq(word, 1, p) \o <<twist.letter>> \o SubSeq(word, p + 1, Len(word)))
             ELSE SimError("InvalidAction")
        ELSE IF twist.type = "DROP"
        THEN IF p \in 0..(Len(word) - 1) /\ Len(word) > 1
             THEN SimOk(SubSeq(word, 1, p) \o SubSeq(word, p + 2, Len(word)))
             ELSE SimError("InvalidAction")
        ELSE IF twist.type = "SWAP"
        THEN IF p \in 0..(Len(word) - 1) /\ word[p + 1] = twist.from
             THEN SimOk([word EXCEPT ![p + 1] = twist.to])
             ELSE SimError("InvalidAction")
        ELSE SimError("InvalidAction")

RECURSIVE ApplyTwists(_, _)
ApplyTwists(word, twists) ==
    IF twists = <<>> THEN SimOk(word)
    ELSE LET first == ApplyTwist(word, Head(twists))
         IN  IF first.ok THEN ApplyTwists(first.words, Tail(twists)) ELSE first

RECURSIVE Concat(_, _)
Concat(words, indices) ==
    IF indices = <<>> THEN <<>>
    ELSE words[Head(indices) + 1] \o Concat(words, Tail(indices))

\* the words left by a MERGE: the merged word at the lowest merged index,
\* the other merged positions removed
RECURSIVE MergeFrom(_, _, _, _)
MergeFrom(words, indexSet, merged, i) ==
    IF i > Len(words) THEN <<>>
    ELSE (IF (i - 1) \notin indexSet THEN <<words[i]>>
          ELSE IF \A j \in indexSet : j >= i - 1 THEN <<merged>>
          ELSE <<>>) \o MergeFrom(words, indexSet, merged, i + 1)

\* one action on the word list
ApplyAction(words, action) ==
    LET k == action.targetWordIndex
    IN  IF action.type = "MERGE"
        THEN LET m == action.mergeIndices
                 indexSet == {m[i] : i \in 1..Len(m)}
             IN  IF \E i \in 1..Len(m) : m[i] \notin 0..(Len(words) - 1)
                 THEN SimError("IndexOutOfRange")
                 ELSE IF Len(m) < 2 \/ Cardinality(indexSet) # Len(m)
                 THEN SimError("InvalidAction")
                 ELSE SimOk(MergeFrom(words, indexSet, Concat(words, m), 1))
        ELSE IF k \notin 0..(Len(words) - 1) THEN SimError("IndexOutOfRange")
        ELSE IF action.type = "LETTER_TWIST"
        THEN LET twisted == ApplyTwists(words[k + 1], action.twists)
             IN  IF twisted.ok THEN SimOk([words EXCEPT ![k + 1] = twisted.words])
                 ELSE twisted
        ELSE IF action.type = "WORD_TWIST"
        THEN SimOk([words EXCEPT ![k + 1] = action.targetSynonymAntonym])
        ELSE IF action.type = "SPLIT"
        THEN IF action.splitIndex > 0 /\ action.splitIndex < Len(words[k + 1])
             THEN SimOk(SubSeq(words, 1, k)
                        \o <<SubSeq(words[k + 1], 1, action.splitIndex),
                             SubSeq(words[k + 1], action.splitIndex + 1, Len(words[k + 1]))>>
                        \o SubSeq(words, k + 2, Len(words)))
             ELSE SimError("InvalidAction")
        ELSE SimError("InvalidAction")

\* simulate(words, actions): the actions applied in the order submitted,
\* each on the result of the ones before it
RECURSIVE Simulate(_, _)
Simulate(words, actions) ==
    IF actions = <<>> THEN SimOk(words)
    ELSE LET first == ApplyAction(words, Head(actions))
         IN  IF first.ok THEN Simulate(first.words, Tail(actions)) ELSE first

\* the multiset of the lower-cased words of a list
RECURSIVE Count(_, _)
Count(words, w) ==
    IF words = <<>> THEN 0
    ELSE (IF toLowerCase(Head(words)) = toLowerCase(w) THEN 1 ELSE 0) + Count(Tail(words), w)

\* case-insensitive multiset equality of two word lists
SameWords(a, b) ==
    /\ Len(a) = Len(b)
    /\ \A i \in 1..Len(a) : Count(a, a[i]) = Count(b, a[i])

(* --------------------- the turn handler after the join ------------------ *)
\* the literal condition of the commit block: `if (false)`
TurnValidated == FALSE

\* the candidate state of the commit block
UpdatedGameState(currentGameState, turnInput) ==
    [currentGameState EXCEPT
        !.currentWords = turnInput.finalWords,
        !.turnNumber   = currentGameState.turnNumber + 1,
        !.history      = Append(currentGameState.history,
                                [turn |-> currentGameState.turnNumber, input |-> turnInput])]

\* TurnOutcome building and saving the candidate state before the checks
TurnOutcomeSaveFirst(blockList, currentGameState, turnInput, results) ==
    LET invalidResult == FindInvalid(results)
        profaneWord   == FindProfane(blockList, turnInput.finalWords)
        saved         == Some(UpdatedGameState(currentGameState, turnInput))
    IN  IF invalidResult # None
        THEN [res  |-> ErrorResponse(400, "INVALID_WORD",
                          Some(turnInput.finalWords[indexOf(results, invalidResult[1]) + 1]),
                          IF invalidResult[1].error # "" THEN invalidResult[1].error
                          ELSE "One or more submitted words are invalid."),
              save |-> saved]
        ELSE IF profaneWord # None
        THEN [res  |-> ErrorResponse(400, "PROFANITY_DETECTED", profaneWord,
                                     "The word is not allowed."),
              save |-> saved]
        ELSE [res  |-> TurnResponse(501, FALSE, "NOT_FULLY_IMPLEMENTED",
                                    "Action validation not implemented.", None),
              save |-> saved]

\* what the handler does once Promise.all has resolved: the response it
\* sends and the state it saves (None: nothing is saved)
TurnOutcome(blockList, currentGameState, turnInput, results) ==
    LET invalidResult == FindInvalid(results)
        profaneWord   == FindProfane(blockList, turnInput.finalWords)
    IN  IF invalidResult # None
        THEN [res  |-> ErrorResponse(400, "INVALID_WORD",
                          Some(turnInput.finalWords[indexOf(results, invalidResult[1]) + 1]),
                          IF invalidResult[1].error # "" THEN invalidResult[1].error
                          ELSE "One or more submitted words are invalid."),
              save |-> None]
        ELSE IF profaneWord # None
        THEN [res  |-> ErrorResponse(400, "PROFANITY_DETECTED", profaneWord,
                                     "The word is not allowed."),
              save |-> None]
        ELSE IF TurnValidated
        THEN [res  |-> TurnResponse(200, TRUE, "", "",
                          Some(UpdatedGameState(currentGameState, turnInput))),
              save |-> Some(UpdatedGameState(currentGameState, turnInput))]
        ELSE [res  |-> TurnResponse(501, FALSE, "NOT_FULLY_IMPLEMENTED",
                                    "Action validation not implemented.", None),
              save |-> None]

(* -------------------------------- state --------------------------------- *)
VARIABLES
    phase,          \* "booting", "listening" or "exited" (process.exit)
    gameWordList,   \* the module-level word list of the router
    blockListSet,   \* the module-level profanity set of the router
    dbInstance,     \* db module: 0 is null, n > 0 the handle of client n
    clientInstance, \* db module: 0 is null, n > 0 client n
    clients,        \* db module: the MongoClients made so far, client n at place n
    dbCalls,        \* db module: the calls waiting for connect() or close()
    dbLast,         \* db module: the last call that returned and what it returned
    games,          \* the documents of the "games" collection, in insertion order
    gamesCreated,   \* how many game ids crypto.randomUUID() has handed out
    newGame,        \* the POST /api/games request being served
    turns           \* the POST /api/games/:gameId/turns requests, by slot

vars == <<phase, gameWordList, blockListSet, dbInstance, clientInstance,
          clients, dbCalls, dbLast, games, gamesCreated, newGame, turns>>

Requests == 1..NumRequests

\* words a client puts in finalWords
SubmittedWords == {cat, Damn, Blank}

RECURSIVE SeqsUpTo(_, _)
SeqsUpTo(S, n) ==
    IF n = 0 THEN {<<>>}
    ELSE SeqsUpTo(S, n - 1) \cup
         {Append(q, x) : q \in {p \in SeqsUpTo(S, n - 1) : Len(p) = n - 1}, x \in S}

\* the request bodies clients send: the malformed ones, every list of
\* submitted words with no action, and the swap of "cat" into "rat"
TurnInputs ==
    {NoBody, BadActions, BadFinalWords} \cup
    {TurnInput(<<>>, f) : f \in SeqsUpTo(SubmittedWords, MaxFinalWords)} \cup
    {TurnInput(<<SwapAction(0, 0, "c", "r")>>, <<rat>>)}

\* the request bodies of the clients that do not wait for each other
ConcurrentInputs == {t \in TurnInputs : Len(t.finalWords) <= 1}

\* ids clients name in the URL: 0 is the id of the document that is in the
\* collection before the process starts, the others are handed out by randomUUID
GameIds == 0..MaxGames

\* the document that is in the collection when the process starts: the
\* collection outlives the process, and its documents are any IGameState
OldGame(status) ==
    IF status = "completed"
    THEN [InitialGameState(0, cat, rat) EXCEPT
            !.currentWords = <<rat>>, !.turnNumber = 2, !.gameStatus = status,
            !.history = <<[turn  |-> 1,
                           input |-> TurnInput(<<SwapAction(0, 0, "c", "r")>>, <<rat>>)]>>]
    ELSE [InitialGameState(0, cat, rat) EXCEPT !.gameStatus = status]

IdleTurn ==
    [pc |-> "idle", gameId |-> 0, turnInput |-> NoBody, currentGameState |-> None,
     validationResults |-> <<>>, res |-> None]

IdleNewGame == [pc |-> "idle", state |-> None, res |-> None]

\* no call of the db module has returned yet
NoDbCall == [op |-> "none", handle |-> 0]

Init ==
    /\ phase = "booting"
    /\ gameWordList = <<>>
    /\ blockListSet = {}
    /\ dbInstance = 0
    /\ clientInstance = 0
    /\ clients = <<>>
    /\ dbCalls = <<>>
    /\ dbLast = NoDbCall
    /\ games \in {<<>>} \cup {<<OldGame(s)>> : s \in GameStatuses}
    /\ gamesCreated = 0
    /\ newGame = IdleNewGame
    /\ turns = [r \in Requests |-> IdleTurn]

(* ------------------------------ start-up -------------------------------- *)
\* Startup that goes on to listen when the word list cannot be loaded
StartupLenient(wordsReadable, blockReadable) ==
    /\ phase = "booting"
    /\ gameWordList' = loadWords(wordsReadable, WordsFile).words
    /\ blockListSet' = IF loadBlockList(blockReadable, BlockFile).ok
                       THEN loadBlockList(blockReadable, BlockFile).set
                       ELSE blockListSet
    /\ phase' = "listening"
    /\ UNCHANGED <<dbInstance, clientInstance, clients, dbCalls, dbLast,
                   games, gamesCreated, newGame, turns>>

\* module load of the router and app.listen: the word list is loaded or the
\* process exits; the block list is loaded or stays empty
Startup(wordsReadable, blockReadable) ==
    /\ phase = "booting"
    /\ IF loadWords(wordsReadable, WordsFile).ok
       THEN /\ gameWordList' = loadWords(wordsReadable, WordsFile).words
            /\ blockListSet' = IF loadBlockList(blockReadable, BlockFile).ok
                               THEN loadBlockList(blockReadable, BlockFile).set
                               ELSE blockListSet
            /\ phase' = "listening"
       ELSE /\ phase' = "exited"
            /\ UNCHANGED <<gameWordList, blockListSet>>
    /\ UNCHANGED <<dbInstance, clientInstance, clients, dbCalls, dbLast,
                   games, gamesCreated, newGame, turns>>

(* ------------------------------ db module ------------------------------- *)
\* seq without its k-th element
RemoveAt(seq, k) == SubSeq(seq, 1, k - 1) \o SubSeq(seq, k + 1, Len(seq))

\* connectToDb up to its return with the handle it holds, or up to
\* `await clientInstance.connect()` on the client it has just made
connectToDb ==
    /\ phase # "exited"
    /\ IF dbInstance # 0
       THEN /\ dbLast' = [op |-> "connectToDb", handle |-> dbInstance]
            /\ UNCHANGED <<clientInstance, clients, dbCalls>>
       ELSE /\ Len(clients) < MaxClients
            /\ Len(dbCalls) < MaxDbCalls
            /\ clients' = Append(clients, "connecting")
            /\ clientInstance' = Len(clients) + 1
            /\ dbCalls' = Append(dbCalls, [op |-> "connect", client |-> Len(clients) + 1])
            /\ dbLast' = dbLast
    /\ UNCHANGED <<phase, gameWordList, blockListSet, dbInstance, games,
                   gamesCreated, newGame, turns>>

\* connectToDb after the await of call k: the handle is taken from the
\* client that clientInstance names now and returned; the process exits
\* when connect() failed or clientInstance is null by now
connectReturn(k, ok) ==
    /\ phase # "exited"
    /\ k \in 1..Len(dbCalls)
    /\ dbCalls[k].op = "connect"
    /\ dbCalls' = RemoveAt(dbCalls, k)
    /\ IF ok /\ clientInstance # 0
       THEN /\ clients' = [clients EXCEPT ![dbCalls[k].client] =
                              IF @ = "closed" THEN @ ELSE "open"]
            /\ dbInstance' = clientInstance
            /\ dbLast' = [op |-> "connectToDb", handle |-> clientInstance]
            /\ phase' = phase
       ELSE /\ phase' = "exited"
            /\ UNCHANGED <<clients, dbInstance, dbLast>>
    /\ UNCHANGED <<gameWordList, blockListSet, clientInstance, games,
                   gamesCreated, newGame, turns>>

\* closeDbConnection up to `await clientInstance.close()`, or to its return
\* when no client is held
closeDbConnection ==
    /\ phase # "exited"
    /\ IF clientInstance # 0
       THEN /\ Len(dbCalls) < MaxDbCalls
            /\ dbCalls' = Append(dbCalls, [op |-> "close", client |-> clientInstance])
            /\ dbLast' = dbLast
       ELSE /\ dbCalls' = dbCalls
            /\ dbLast' = [op |-> "closeDbConnection", handle |-> 0]
    /\ UNCHANGED <<phase, gameWordList, blockListSet, dbInstance, clientInstance,
                   clients, games, gamesCreated, newGame, turns>>

\* closeDbConnection after the await of call k: both module variables are
\* set to null; when close() failed the call is rejected before that
closeReturn(k, ok) ==
    /\ phase # "exited"
    /\ k \in 1..Len(dbCalls)
    /\ dbCalls[k].op = "close"
    /\ dbCalls' = RemoveAt(dbCalls, k)
    /\ IF ok
       THEN /\ clients' = [clients EXCEPT ![dbCalls[k].client] = "closed"]
            /\ dbInstance' = 0
            /\ clientInstance' = 0
            /\ dbLast' = [op |-> "closeDbConnection", handle |-> 0]
       ELSE UNCHANGED <<clients, dbInstance, clientInstance, dbLast>>
    /\ UNCHANGED <<phase, gameWordList, blockListSet, games, gamesCreated,
                   newGame, turns>>

\* the one connectToDb call of a start-up: made when nothing is connected
\* or connecting
ConnectToDb ==
    /\ dbInstance = 0
    /\ clientInstance = 0
    /\ connectToDb

\* the connect() of the start-up's call answers
ConnectDone(ok) ==
    /\ dbInstance = 0
    /\ clientInstance # 0
    /\ connectReturn(1, ok)

\* getDb looking at the client in the place of the handle
getDbThrowsNoClient == clientInstance = 0

\* getDb throws when dbInstance is null
getDbThrows == dbInstance = 0

(* --------------------------- POST /api/games ---------------------------- *)
\* the handler up to `await collection.replaceOne(...)` in saveGameState;
\* startIndex and targetIndex are the two Math.random draws that differ
GameCreate(startIndex, targetIndex) ==
    /\ phase = "listening"
    /\ newGame.pc \in {"idle", "done"}
    /\ gamesCreated < MaxGames
    /\ Len(gameWordList) >= 2
    /\ startIndex \in 0..(Len(gameWordList) - 1)
    /\ targetIndex \in 0..(Len(gameWordList) - 1)
    /\ targetIndex # startIndex
    /\ LET initialGameState ==
              InitialGameState(gamesCreated + 1, gameWordList[startIndex + 1],
                               gameWordList[targetIndex + 1])
       IN  IF getDbThrows
           THEN /\ newGame' = [pc |-> "done", state |-> None,
                               res |-> Some(UnhandledError(
                                          "Database error while saving game state."))]
                /\ gamesCreated' = gamesCreated
           ELSE /\ newGame' = [pc |-> "saving", state |-> Some(initialGameState),
                               res |-> None]
                /\ gamesCreated' = gamesCreated + 1
    /\ UNCHANGED <<phase, gameWordList, blockListSet, dbInstance, clientInstance,
                   clients, dbCalls, dbLast,
                   games, turns>>

\* GameSaved answering 201 whatever replaceOne answered
GameSavedUnchecked(ok) ==
    /\ phase = "listening"
    /\ newGame.pc = "saving"
    /\ IF ok
       THEN games' = replaceOne(games, newGame.state[1].gameId, newGame.state[1])
       ELSE games' = games
    /\ newGame' = [newGame EXCEPT !.pc = "done",
                      !.res = Some(CreatedResponse(newGame.state[1]))]
    /\ UNCHANGED <<phase, gameWordList, blockListSet, dbInstance, clientInstance,
                   clients, dbCalls, dbLast,
                   gamesCreated, turns>>

\* replaceOne answers: the document is stored and 201 is sent, or the driver
\* failed and the handler's promise is rejected
GameSaved(ok) ==
    /\ phase = "listening"
    /\ newGame.pc = "saving"
    /\ IF ok
       THEN /\ games' = replaceOne(games, newGame.state[1].gameId, newGame.state[1])
            /\ newGame' = [newGame EXCEPT !.pc = "done",
                              !.res = Some(CreatedResponse(newGame.state[1]))]
       ELSE /\ games' = games
            /\ newGame' = [newGame EXCEPT !.pc = "done",
                              !.res = Some(UnhandledError(
                                         "Database error while saving game state."))]
    /\ UNCHANGED <<phase, gameWordList, blockListSet, dbInstance, clientInstance,
                   clients, dbCalls, dbLast,
                   gamesCreated, turns>>

(* --------------------- POST /api/games/:gameId/turns -------------------- *)
\* the handler up to `await collection.findOne(...)` in findGameById
TurnSubmit(r, gameId, turnInput) ==
    /\ phase = "listening"
    /\ turns[r].pc = "idle"
    /\ turns' = [turns EXCEPT ![r] =
          IF getDbThrows
          THEN [IdleTurn EXCEPT !.pc = "done", !.gameId = gameId, !.turnInput = turnInput,
                   !.res = Some(UnhandledError("Database error while finding game state."))]
          ELSE [IdleTurn EXCEPT !.pc = "finding", !.gameId = gameId,
                   !.turnInput = turnInput]]
    /\ UNCHANGED <<phase, gameWordList, blockListSet, dbInstance, clientInstance,
                   clients, dbCalls, dbLast,
                   games, gamesCreated, newGame>>

\* a save of the handler: saveGameState when the handle is there
Saved(coll, outcome) ==
    IF outcome.save # None /\ ~getDbThrows
    THEN replaceOne(coll, outcome.save[1].gameId, outcome.save[1])
    ELSE coll

\* Precheck answering a missing game as a game that is over
PrecheckMissingAsOver(currentGameState, turnInput) ==
    IF currentGameState = None \/ currentGameState[1].gameStatus # "active"
    THEN Some(ErrorResponse(400, "GAME_NOT_ACTIVE", None, "Game is already over."))
    ELSE IF InvalidStructure(turnInput)
    THEN Some(ErrorResponse(400, "INVALID_INPUT", None, "Invalid turn input structure."))
    ELSE None

\* Precheck looking at the input before the game's status
PrecheckInputFirst(currentGameState, turnInput) ==
    IF currentGameState = None
    THEN Some(ErrorResponse(404, "GAME_NOT_FOUND", None, "Game not found."))
    ELSE IF InvalidStructure(turnInput)
    THEN Some(ErrorResponse(400, "INVALID_INPUT", None, "Invalid turn input structure."))
    ELSE IF currentGameState[1].gameStatus # "active"
    THEN Some(ErrorResponse(400, "GAME_NOT_ACTIVE", None, "Game is already over."))
    ELSE None

\* the checks of the handler between findGameById and the dictionary
\* lookups: the response that ends the request there, None to go on
Precheck(currentGameState, turnInput) ==
    IF currentGameState = None
    THEN Some(ErrorResponse(404, "GAME_NOT_FOUND", None, "Game not found."))
    ELSE IF currentGameState[1].gameStatus # "active"
    THEN Some(ErrorResponse(400, "GAME_NOT_ACTIVE", None, "Game is already over."))
    ELSE IF InvalidStructure(turnInput)
    THEN Some(ErrorResponse(400, "INVALID_INPUT", None, "Invalid turn input structure."))
    ELSE None

\* findOne answers (or the driver fails) and the handler runs to
\* `await Promise.all(...)`, or to its response when it rejects the turn or
\* no lookup is pending
TurnLoad(r, ok) ==
    /\ phase = "listening"
    /\ turns[r].pc = "finding"
    /\ LET t == turns[r]
           currentGameState == findOne(games, t.gameId)
           rejected == Precheck(currentGameState, t.turnInput)
           results == StartValidation(t.turnInput.finalWords)
           outcome == TurnOutcome(blockListSet, currentGameState[1], t.turnInput, results)
       IN  IF ~ok
           THEN /\ turns' = [turns EXCEPT ![r].pc = "done",
                      ![r].res = Some(UnhandledError(
                                    "Database error while finding game state."))]
                /\ games' = games
           ELSE IF rejected # None
           THEN /\ turns' = [turns EXCEPT ![r].pc = "done",
                      ![r].currentGameState = currentGameState,
                      ![r].res = rejected]
                /\ games' = games
           ELSE IF AllSettled(results)
           THEN /\ turns' = [turns EXCEPT ![r].pc = "done",
                      ![r].currentGameState = currentGameState,
                      ![r].validationResults = results,
                      ![r].res = Some(outcome.res)]
                /\ games' = Saved(games, outcome)
           ELSE /\ turns' = [turns EXCEPT ![r].pc = "validating",
                      ![r].currentGameState = currentGameState,
                      ![r].validationResults = results]
                /\ games' = games
    /\ UNCHANGED <<phase, gameWordList, blockListSet, dbInstance, clientInstance,
                   clients, dbCalls, dbLast,
                   gamesCreated, newGame>>

\* the fetch of word i answers; when it was the last one pending Promise.all
\* resolves and the handler runs to its response
LookupReturn(r, i, fetched) ==
    /\ phase = "listening"
    /\ turns[r].pc = "validating"
    /\ i \in 1..Len(turns[r].validationResults)
    /\ ~turns[r].validationResults[i].settled
    /\ LET t == turns[r]
           results == [t.validationResults EXCEPT ![i] =
                          SettledResult(i, validateWordWithApi(t.turnInput.finalWords[i],
                                                               fetched))]
           outcome == TurnOutcome(blockListSet, t.currentGameState[1], t.turnInput, results)
       IN  IF AllSettled(results)
           THEN /\ turns' = [turns EXCEPT ![r].pc = "done",
                      ![r].validationResults = results,
                      ![r].res = Some(outcome.res)]
                /\ games' = Saved(games, outcome)
           ELSE /\ turns' = [turns EXCEPT ![r].validationResults = results]
                /\ games' = games
    /\ UNCHANGED <<phase, gameWordList, blockListSet, dbInstance, clientInstance,
                   clients, dbCalls, dbLast,
                   gamesCreated, newGame>>

\* the response has gone out and the request is over: its slot is free
TurnEnd(r) ==
    /\ phase = "listening"
    /\ turns[r].pc = "done"
    /\ turns' = [turns EXCEPT ![r] = IdleTurn]
    /\ UNCHANGED <<phase, gameWordList, blockListSet, dbInstance, clientInstance,
                   clients, dbCalls, dbLast,
                   games, gamesCreated, newGame>>

(* --------------------------- specification ------------------------------ *)
\* start-up, the db module, game creation and the steps of the turn
\* requests that are open
Serve ==
    \/ \E wordsReadable \in BOOLEAN, blockReadable \in BOOLEAN :
          Startup(wordsReadable, blockReadable)
    \/ ConnectToDb
    \/ \E ok \in BOOLEAN : ConnectDone(ok)
    \/ \E startIndex \in 0..1, targetIndex \in 0..1 : GameCreate(startIndex, targetIndex)
    \/ \E ok \in BOOLEAN : GameSaved(ok)
    \/ \E r \in Requests, ok \in BOOLEAN : TurnLoad(r, ok)
    \/ \E r \in Requests, i \in 1..MaxFinalWords, fetched \in FetchOutcomes :
          LookupReturn(r, i, fetched)
    \/ \E r \in Requests : TurnEnd(r)

\* one client that sends its next turn after the answer to the previous one
Next ==
    \/ Serve
    \/ \E gameId \in GameIds, turnInput \in TurnInputs : TurnSubmit(1, gameId, turnInput)

Spec == Init /\ [][Next]_vars

\* NumRequests clients that send turns without waiting for each other
NextConcurrent ==
    \/ Serve
    \/ \E r \in Requests, gameId \in GameIds, turnInput \in ConcurrentInputs :
          TurnSubmit(r, gameId, turnInput)

SpecConcurrent == Init /\ [][NextConcurrent]_vars

(* ------------------------- the store on its own ------------------------- *)
\* the states handed to saveGameState: for every gameId a new game and a
\* game of every status
SaveStates ==
    {[OldGame(status) EXCEPT !.gameId = gameId] :
        status \in GameStatuses, gameId \in GameIds}
    \cup {InitialGameState(gameId, rat, cat) : gameId \in GameIds}

\* one call of saveGameState from its entry to its return: it throws when
\* getDb throws or the driver fails, and has then stored nothing
saveGameState(gameState, ok) ==
    /\ phase = "listening"
    /\ games' = IF getDbThrows \/ ~ok
                THEN games
                ELSE replaceOne(games, gameState.gameId, gameState)
    /\ UNCHANGED <<phase, gameWordList, blockListSet, dbInstance, clientInstance,
                   clients, dbCalls, dbLast,
                   gamesCreated, newGame, turns>>

\* the process starts, connects, and saveGameState is called any number of
\* times with any states
NextStore ==
    \/ \E wordsReadable \in BOOLEAN, blockReadable \in BOOLEAN :
          Startup(wordsReadable, blockReadable)
    \/ ConnectToDb
    \/ \E ok \in BOOLEAN : ConnectDone(ok)
    \/ \E gameState \in SaveStates, ok \in BOOLEAN : saveGameState(gameState, ok)

SpecStore == Init /\ [][NextStore]_vars

\* Spec with the progress the program can count on: the database driver
\* answers every operation it was given or fails it, and a response that was
\* sent ends its request. Nothing is assumed of the dictionary: fetch is
\* awaited with no timeout and no abort signal, so a lookup settles only
\* when the dictionary answers or the connection fails.
SpecLive ==
    /\ Init
    /\ [][Next]_vars
    /\ WF_vars(\E ok \in BOOLEAN : ConnectDone(ok))
    /\ WF_vars(\E ok \in BOOLEAN : GameSaved(ok))
    /\ WF_vars(\E r \in Requests, ok \in BOOLEAN : TurnLoad(r, ok))
    /\ WF_vars(\E r \in Requests : TurnEnd(r))

\* a stored active game whose letter twists are used up: its
\* availableTwists holds one ITwistAvailability with usesLeft 0 (usesLeft is
\* `number | null`: Some(n) for a number, None for null)
ExhaustedGame ==
    [OldGame("active") EXCEPT
        !.availableTwists = <<[twistId  |-> "LETTER_TWIST",
                               name     |-> "Letter Twist",
                               usesLeft |-> Some(0)]>>]

\* the process starts on a store that holds ExhaustedGame
InitTwists ==
    /\ phase = "booting"
    /\ gameWordList = <<>>
    /\ blockListSet = {}
    /\ dbInstance = 0
    /\ clientInstance = 0
    /\ clients = <<>>
    /\ dbCalls = <<>>
    /\ dbLast = NoDbCall
    /\ games = <<ExhaustedGame>>
    /\ gamesCreated = 0
    /\ newGame = IdleNewGame
    /\ turns = [r \in Requests |-> IdleTurn]

SpecTwists == InitTwists /\ [][Next]_vars

(* ------------------------ the db module on its own ----------------------- *)
\* connectToDb and closeDbConnection are called in any order, also while
\* earlier calls wait for the driver
NextDb ==
    \/ connectToDb
    \/ \E k \in 1..MaxDbCalls, ok \in BOOLEAN : connectReturn(k, ok)
    \/ closeDbConnection
    \/ \E k \in 1..MaxDbCalls, ok \in BOOLEAN : closeReturn(k, ok)

SpecDb == Init /\ [][NextDb]_vars

(* ------------------------------ properties ------------------------------ *)
\* request r has been answered
Answered(r) == turns[r].pc = "done" /\ turns[r].res # None

\* request r found its game, the game was active and the body well-formed
Admitted(r) ==
    /\ Answered(r)
    /\ turns[r].currentGameState # None
    /\ turns[r].currentGameState[1].gameStatus = "active"
    /\ ~InvalidStructure(turns[r].turnInput)

\* every dictionary lookup of request r said the word is valid
AllWordsValid(r) ==
    \A i \in 1..Len(turns[r].validationResults) : turns[r].validationResults[i].isValid

\* word is in the block list, compared without regard to case
Profane(word) == \E b \in blockListSet : toLowerCase(word) = toLowerCase(b)

\* the replay of the actions of request r on the words it loaded
Replay(r) == Simulate(turns[r].currentGameState[1].currentWords, turns[r].turnInput.actions)

\* request r is a turn the specification commits: its actions replay to its
\* finalWords, which all pass the dictionary and the profanity filter
Acceptable(r) ==
    /\ Admitted(r)
    /\ Replay(r).ok
    /\ Replay(r).words = turns[r].turnInput.finalWords
    /\ AllWordsValid(r)
    /\ \A i \in 1..Len(turns[r].turnInput.finalWords) :
          ~Profane(turns[r].turnInput.finalWords[i])

\* the stored document of the game of request r
Stored(r) == findOne(games, turns[r].gameId)

\* C1: a turn rejected for its structure, for an invalid word or for
\* profanity leaves the stored document of its game as the handler loaded
\* it: turnNumber, currentWords, gameStatus and every other field.
C1_RejectedTurnLeavesStore ==
    \A r \in Requests :
        (Answered(r) /\ turns[r].res[1].errorCode \in
                           {"INVALID_INPUT", "INVALID_WORD", "PROFANITY_DETECTED"})
        => /\ Stored(r) = turns[r].currentGameState
           /\ Stored(r)[1].turnNumber = turns[r].currentGameState[1].turnNumber
           /\ Stored(r)[1].currentWords = turns[r].currentGameState[1].currentWords
           /\ Stored(r)[1].gameStatus = turns[r].currentGameState[1].gameStatus

\* C1 witness: a turn claiming words other than the stored ones was rejected
\* for an invalid word, and the stored document is the one it loaded
C1_Witness ==
    \E r \in Requests :
        /\ Answered(r)
        /\ turns[r].res[1].errorCode = "INVALID_WORD"
        /\ turns[r].turnInput.finalWords # turns[r].currentGameState[1].currentWords
        /\ Stored(r) = turns[r].currentGameState

\* C2: an acceptable turn is committed: it is answered 200 with isValid true
\* and the updated state, and the stored state has currentWords = finalWords,
\* turnNumber one greater and one more history entry.
C2_AcceptableTurnCommitted ==
    \A r \in Requests :
        Acceptable(r)
        => /\ turns[r].res[1].status = 200
           /\ turns[r].res[1].isValid = Some(TRUE)
           /\ Stored(r) # None
           /\ turns[r].res[1].gameState = Stored(r)
           /\ Stored(r)[1].currentWords = turns[r].turnInput.finalWords
           /\ Stored(r)[1].turnNumber = turns[r].currentGameState[1].turnNumber + 1
           /\ Len(Stored(r)[1].history) = Len(turns[r].currentGameState[1].history) + 1

\* C3: a well-formed turn on an active game whose replay gives other words
\* than its finalWords is answered SimulationMismatch.
C3_MismatchRejected ==
    \A r \in Requests :
        (Admitted(r) /\ Replay(r).ok /\ Replay(r).words # turns[r].turnInput.finalWords)
        => turns[r].res[1].errorCode = "SIMULATION_MISMATCH"

\* C4: after a turn on an active game is answered, the stored status of the
\* game is completed exactly when the turn was acceptable and its finalWords
\* are the target words as case-insensitive multisets.
C4_CompletedIffTargetReached ==
    \A r \in Requests :
        (Admitted(r) /\ Stored(r) # None)
        => (Stored(r)[1].gameStatus = "completed"
            <=> (/\ Acceptable(r)
                 /\ SameWords(turns[r].turnInput.finalWords,
                              turns[r].currentGameState[1].targetWord)))

\* request r is between loading the game state and its commit decision
InPipeline(r) == turns[r].pc \in {"finding", "validating"}

\* C5: no two turn requests for the same game are in the pipeline together.
C5_OneTurnPerGameInPipeline ==
    \A r1 \in Requests, r2 \in Requests :
        (r1 # r2 /\ InPipeline(r1) /\ InPipeline(r2))
        => turns[r1].gameId # turns[r2].gameId

\* C6: a turn for a game whose loaded status is not active is answered
\* GameNotActive whatever its body, and the stored document, history
\* included, is the one that was loaded.
C6_InactiveGameRejected ==
    \A r \in Requests :
        (/\ Answered(r)
         /\ turns[r].currentGameState # None
         /\ turns[r].currentGameState[1].gameStatus # "active")
        => /\ turns[r].res[1].errorCode = "GAME_NOT_ACTIVE"
           /\ turns[r].res[1].status = 400
           /\ Stored(r) = turns[r].currentGameState
           /\ Stored(r)[1].history = turns[r].currentGameState[1].history

\* C6 witness: a turn with no body at all, on a completed game with a
\* history, was answered GameNotActive
C6_Witness ==
    \E r \in Requests :
        /\ Answered(r)
        /\ turns[r].currentGameState # None
        /\ turns[r].currentGameState[1].gameStatus = "completed"
        /\ Len(turns[r].currentGameState[1].history) > 0
        /\ InvalidStructure(turns[r].turnInput)
        /\ turns[r].res[1].errorCode = "GAME_NOT_ACTIVE"

\* C7: a stored gameStatus is always active, completed or failed; a document
\* that appears in the collection is active; a document that is completed or
\* failed stays in the collection with that status.
C7_StatusOneWay ==
    [][\A gameId \in GameIds :
          LET before == findOne(games, gameId)
              after  == findOne(games', gameId)
          IN  /\ after # None => after[1].gameStatus \in GameStatuses
              /\ (before = None /\ after # None) => after[1].gameStatus = "active"
              /\ (before # None /\ before[1].gameStatus # "active")
                 => (after # None /\ after[1].gameStatus = before[1].gameStatus)]_vars

\* C7 witness: a game was created and is stored active next to a completed
\* game on which a turn has been answered
C7_Witness ==
    /\ newGame.pc = "done"
    /\ newGame.res[1].status = 201
    /\ findOne(games, 1) # None
    /\ findOne(games, 1)[1].gameStatus = "active"
    /\ findOne(games, 0) # None
    /\ findOne(games, 0)[1].gameStatus = "completed"
    /\ \E r \in Requests : Answered(r) /\ turns[r].gameId = 0

\* a lookup of request r failed because the validator could not be asked
Unavailable(r) ==
    \E i \in 1..Len(turns[r].validationResults) :
        turns[r].validationResults[i].error \in
            {"API error validating word", "Network error validating word"}

\* C8: a turn with a lookup that failed because the validator was
\* unavailable is answered with a validator-unavailable failure, never as an
\* invalid word and never as accepted.
C8_UnavailableIsNotInvalidWord ==
    \A r \in Requests :
        (Admitted(r) /\ Unavailable(r))
        => /\ turns[r].res[1].errorCode = "VALIDATOR_UNAVAILABLE"
           /\ turns[r].res[1].errorCode # "INVALID_WORD"
           /\ turns[r].res[1].isValid # Some(TRUE)

\* the indices of the words of request r that failed dictionary validation
Failing(r) ==
    {i \in 1..Len(turns[r].validationResults) : ~turns[r].validationResults[i].isValid}

\* C9: when words of finalWords fail dictionary validation the turn is
\* answered InvalidWord and the offending word is the failing word of
\* lowest index, whatever the order in which the lookups answered.
C9_FirstInvalidWordReported ==
    \A r \in Requests :
        (Admitted(r) /\ Failing(r) # {})
        => /\ turns[r].res[1].errorCode = "INVALID_WORD"
           /\ \E i \in Failing(r) :
                 /\ \A j \in Failing(r) : i <= j
                 /\ turns[r].res[1].offendingWord = Some(turns[r].turnInput.finalWords[i])

\* C9 witness: two different words failed and the first one was reported
C9_Witness ==
    \E r \in Requests :
        /\ Admitted(r)
        /\ {1, 2} \subseteq Failing(r)
        /\ turns[r].turnInput.finalWords[1] # turns[r].turnInput.finalWords[2]
        /\ turns[r].res[1].errorCode = "INVALID_WORD"
        /\ turns[r].res[1].offendingWord = Some(turns[r].turnInput.finalWords[1])

\* C10: a turn whose finalWords all pass the dictionary and contain a word
\* that is in the block list, compared as a whole without regard to case,
\* is answered ProfanityDetected naming the first such word, and is not
\* accepted.
C10_ProfanityRejected ==
    \A r \in Requests :
        (/\ Admitted(r)
         /\ AllWordsValid(r)
         /\ \E i \in 1..Len(turns[r].turnInput.finalWords) :
               Profane(turns[r].turnInput.finalWords[i]))
        => /\ turns[r].res[1].errorCode = "PROFANITY_DETECTED"
           /\ turns[r].res[1].status = 400
           /\ turns[r].res[1].isValid # Some(TRUE)
           /\ \E i \in 1..Len(turns[r].turnInput.finalWords) :
                 /\ Profane(turns[r].turnInput.finalWords[i])
                 /\ \A j \in 1..(i - 1) : ~Profane(turns[r].turnInput.finalWords[j])
                 /\ turns[r].res[1].offendingWord = Some(turns[r].turnInput.finalWords[i])

\* C10 witness: "Damn" passed the dictionary after another word and was
\* reported as profanity, the block list holding "damn"
C10_Witness ==
    \E r \in Requests :
        /\ Admitted(r)
        /\ AllWordsValid(r)
        /\ Len(turns[r].turnInput.finalWords) = 2
        /\ turns[r].turnInput.finalWords[2] = Damn
        /\ Damn \notin blockListSet
        /\ ~Profane(turns[r].turnInput.finalWords[1])
        /\ turns[r].res[1].errorCode = "PROFANITY_DETECTED"
        /\ turns[r].res[1].offendingWord = Some(Damn)

\* C11: the step in which findGameById answers, without a driver error, that
\* no document is stored for the gameId of a turn ends the request with 404
\* GAME_NOT_FOUND; it creates no document for that gameId, changes no other
\* document and starts no dictionary lookup.
C11_MissingGameNotFound ==
    [][\A r \in Requests :
          (/\ turns[r].pc = "finding"
           /\ turns'[r].pc # "finding"
           /\ findOne(games, turns[r].gameId) = None
           /\ turns'[r].res # Some(UnhandledError(
                                      "Database error while finding game state.")))
          => /\ turns'[r].pc = "done"
             /\ turns'[r].res # None
             /\ turns'[r].res[1].status = 404
             /\ turns'[r].res[1].errorCode = "GAME_NOT_FOUND"
             /\ turns'[r].res[1].isValid # Some(TRUE)
             /\ turns'[r].validationResults = <<>>
             /\ findOne(games', turns[r].gameId) = None
             /\ games' = games]_vars

\* C11 witness: a well-formed turn with a word to look up was answered 404
\* for a gameId that has no document, and no lookup was started for it
C11_Witness ==
    \E r \in Requests :
        /\ Answered(r)
        /\ turns[r].res[1].errorCode = "GAME_NOT_FOUND"
        /\ turns[r].res[1].status = 404
        /\ ~InvalidStructure(turns[r].turnInput)
        /\ Len(turns[r].turnInput.finalWords) >= 1
        /\ turns[r].validationResults = <<>>
        /\ Stored(r) = None

\* C12: POST /games sends no response while the save of the new state is
\* pending; when it has answered 201 the stored document of the new gameId is
\* the state in the response, with gameStatus active, turnNumber 1, an empty
\* history, and one current word and one target word that stand at two
\* different positions of the preloaded word list; when it has answered
\* anything else no document is stored for the new game.
C12_CreatedAfterPersisted ==
    /\ newGame.pc = "saving" => newGame.res = None
    /\ (newGame.pc = "done" /\ newGame.res[1].status = 201)
       => /\ newGame.state # None
          /\ findOne(games, newGame.state[1].gameId) = newGame.state
          /\ newGame.res[1].gameState = newGame.state
          /\ newGame.state[1].gameStatus = "active"
          /\ newGame.state[1].turnNumber = 1
          /\ newGame.state[1].history = <<>>
          /\ Len(newGame.state[1].currentWords) = 1
          /\ Len(newGame.state[1].targetWord) = 1
          /\ \E i \in 1..Len(gameWordList), j \in 1..Len(gameWordList) :
                /\ i # j
                /\ newGame.state[1].currentWords[1] = gameWordList[i]
                /\ newGame.state[1].targetWord[1] = gameWordList[j]
    /\ (newGame.pc = "done" /\ newGame.res[1].status # 201)
       => \/ newGame.state = None
          \/ findOne(games, newGame.state[1].gameId) = None

\* C12 witness: a game from "rat" to "cat" was created next to an older
\* document, stored and answered 201
C12_Witness ==
    /\ newGame.pc = "done"
    /\ newGame.res[1].status = 201
    /\ Len(games) = 2
    /\ games[2] = newGame.state[1]
    /\ newGame.state[1].currentWords = <<rat>>
    /\ newGame.state[1].targetWord = <<cat>>

\* no two documents of coll have the same gameId
OnePerGame(coll) ==
    \A i \in 1..Len(coll), j \in 1..Len(coll) :
        coll[i].gameId = coll[j].gameId => i = j

\* C13: after any sequence of saveGameState calls the store holds at most
\* one document for each gameId, and one more save of any state d makes
\* findGameById(d.gameId) return d, leaves what findGameById returns for
\* every other gameId, keeps one document for each gameId, and saving d a
\* second time leaves the store as the first save left it.
C13_StoreKeepsLastSaved ==
    /\ OnePerGame(games)
    /\ \A d \in SaveStates :
          LET once == replaceOne(games, d.gameId, d)
          IN  /\ findOne(once, d.gameId) = Some(d)
              /\ \A g \in GameIds \ {d.gameId} : findOne(once, g) = findOne(games, g)
              /\ OnePerGame(once)
              /\ Len(once) = IF findOne(games, d.gameId) = None
                             THEN Len(games) + 1 ELSE Len(games)
              /\ replaceOne(once, d.gameId, d) = once

\* C13 witness: the store was empty, game 1 was saved and then game 0 as
\* completed: findGameById returns each of the two
C13_Witness ==
    /\ Len(games) = 2
    /\ games[1].gameId = 1
    /\ games[2].gameId = 0
    /\ findOne(games, 0) = Some(OldGame("completed"))
    /\ findOne(games, 1) = Some([OldGame("failed") EXCEPT !.gameId = 1])

\* C14: every dictionary lookup is bounded by a timeout: a turn that waits
\* for its lookups is eventually answered, also when a lookup never answers.
C14_PendingLookupAnswered ==
    \A r \in Requests : (turns[r].pc = "validating") ~> Answered(r)

\* C15: no step changes the gameId or the target words of a stored game:
\* a game that has a document keeps one, with the same gameId and the same
\* targetWord, whatever turns are submitted and whatever games are created.
C15_IdentityAndTargetKept ==
    [][\A g \in GameIds :
          findOne(games, g) # None
          => /\ findOne(games', g) # None
             /\ findOne(games', g)[1].gameId = g
             /\ findOne(games', g)[1].targetWord = findOne(games, g)[1].targetWord]_vars

\* C15 witness: a turn on a stored game went through every check of the
\* handler, next to a game created since, and its game still has its target
C15_Witness ==
    \E r \in Requests :
        /\ Admitted(r)
        /\ turns[r].res[1].status = 501
        /\ Len(games) = 2
        /\ Stored(r) # None
        /\ Stored(r)[1].gameId = turns[r].gameId
        /\ Stored(r)[1].targetWord = turns[r].currentGameState[1].targetWord

\* the replay of actions on words comes to a SWAP whose position is in the
\* word and whose `from` is not the character standing there
SwapFromMismatch(words, actions) ==
    \E k \in 1..Len(actions) :
        LET before == Simulate(words, SubSeq(actions, 1, k - 1))
            action == actions[k]
        IN  /\ before.ok
            /\ action.type = "LETTER_TWIST"
            /\ action.targetWordIndex \in 0..(Len(before.words) - 1)
            /\ \E j \in 1..Len(action.twists) :
                  LET word == ApplyTwists(before.words[action.targetWordIndex + 1],
                                          SubSeq(action.twists, 1, j - 1))
                      twist == action.twists[j]
                  IN  /\ word.ok
                      /\ twist.type = "SWAP"
                      /\ twist.position \in 0..(Len(word.words) - 1)
                      /\ word.words[twist.position + 1] # twist.from

\* C16: a well-formed turn on an active game with a SWAP at a position whose
\* character is not the SWAP's `from` is answered InvalidAction and is not
\* accepted.
C16_SwapMismatchInvalidAction ==
    \A r \in Requests :
        (/\ Admitted(r)
         /\ SwapFromMismatch(turns[r].currentGameState[1].currentWords,
                             turns[r].turnInput.actions))
        => /\ turns[r].res[1].errorCode = "INVALID_ACTION"
           /\ turns[r].res[1].isValid # Some(TRUE)
           /\ Stored(r) = turns[r].currentGameState

\* the replay of the actions of request r comes to an action that passes its
\* index and precondition checks and whose twist type has usesLeft 0 in the
\* state the request loaded
ExhaustedAction(r) ==
    LET gameState == turns[r].currentGameState[1]
        actions == turns[r].turnInput.actions
    IN  \E k \in 1..Len(actions) :
            LET before == Simulate(gameState.currentWords, SubSeq(actions, 1, k - 1))
            IN  /\ before.ok
                /\ ApplyAction(before.words, actions[k]).ok
                /\ \E i \in 1..Len(gameState.availableTwists) :
                      /\ gameState.availableTwists[i].twistId = actions[k].type
                      /\ gameState.availableTwists[i].usesLeft = Some(0)

EarlyFailure(r) ==
    IF turns[r].currentGameState = None THEN "GAME_NOT_FOUND"
    ELSE IF turns[r].currentGameState[1].gameStatus # "active" THEN "GAME_NOT_ACTIVE"
    ELSE IF InvalidStructure(turns[r].turnInput) THEN "INVALID_INPUT"
    ELSE IF ~Replay(r).ok
    THEN (IF Replay(r).error = "IndexOutOfRange" THEN "INDEX_OUT_OF_RANGE"
          ELSE "INVALID_ACTION")
    ELSE IF Replay(r).words # turns[r].turnInput.finalWords THEN "SIMULATION_MISMATCH"
    ELSE ""

\* C18: an answered turn carries the error of the earliest failing step in
\* the order game found, game active, input structure, replay,
\* reconciliation, dictionary, profanity; when a step before the dictionary
\* fails no lookup was started, and a rejected turn leaves the document it
\* loaded as it was.
C18_EarliestStepDecides ==
    \A r \in Requests :
        (Answered(r) /\ turns[r].res[1].status # 500)
        => /\ EarlyFailure(r) # ""
              => /\ turns[r].res[1].errorCode = EarlyFailure(r)
                 /\ turns[r].validationResults = <<>>
           /\ (EarlyFailure(r) = "" /\ Failing(r) # {})
              => turns[r].res[1].errorCode = "INVALID_WORD"
           /\ (EarlyFailure(r) = "" /\ Failing(r) = {}
               /\ \E i \in 1..Len(turns[r].turnInput.finalWords) :
                     Profane(turns[r].turnInput.finalWords[i]))
              => turns[r].res[1].errorCode = "PROFANITY_DETECTED"
           /\ (turns[r].currentGameState # None /\ turns[r].res[1].status # 200)
              => Stored(r) = turns[r].currentGameState

\* C19: once a turn has started its lookups there is one for every word of
\* finalWords, in the order of finalWords; while one of them has not
\* returned the request has no response and has saved nothing; and a
\* response to a turn that passed the checks before the dictionary is sent
\* with every lookup returned, lookups that failed on the network included.
C19_AllLookupsJoined ==
    \A r \in Requests :
        LET results == turns[r].validationResults
            pending == {i \in 1..Len(results) : ~results[i].settled}
        IN  /\ results # <<>>
               => /\ Len(results) = Len(turns[r].turnInput.finalWords)
                  /\ \A i \in 1..Len(results) : results[i].ref = i
            /\ turns[r].pc = "validating" => pending # {}
            /\ pending # {}
               => /\ turns[r].pc = "validating"
                  /\ turns[r].res = None
                  /\ Stored(r) = turns[r].currentGameState
            /\ Admitted(r)
               => /\ Len(results) = Len(turns[r].turnInput.finalWords)
                  /\ pending = {}

\* C19 witness: of two lookups the first failed on the network and the
\* second found its word; the turn was answered with both returned
C19_Witness ==
    \E r \in Requests :
        /\ Admitted(r)
        /\ Len(turns[r].validationResults) = 2
        /\ turns[r].validationResults[1].settled
        /\ turns[r].validationResults[1].error = "Network error validating word"
        /\ turns[r].validationResults[2].settled
        /\ turns[r].validationResults[2].isValid
        /\ turns[r].res[1].errorCode = "INVALID_WORD"

\* C20: the database handle is initialised in every step in which a handler
\* takes up a request and calls saveGameState or findGameById: getDb does
\* not throw 'Database not initialized' while a request is served.
C20_DbReadyWhenServed ==
    [][/\ \A r \in Requests :
             (turns[r].pc = "idle" /\ turns'[r].pc # "idle") => dbInstance # 0
       /\ (newGame.pc \in {"idle", "done"} /\ newGame' # newGame) => dbInstance # 0]_vars

\* C21: while the process runs, every client of the db module whose
\* connection is open is the one clientInstance holds: a client that was
\* opened and is not held has been closed.
C21_NoClientLeaked ==
    phase # "exited"
    => \A c \in 1..Len(clients) : clients[c] = "open" => c = clientInstance

\* C22: while the process runs, getDb returns a handle exactly when the
\* last call of the db module that returned is a connectToDb, and throws
\* when it is a closeDbConnection or when none has returned; the handle
\* connectToDb returned is the one getDb returns; and while a handle is
\* held no step makes a client or puts another handle in its place.
C22_GetDbIffConnected ==
    [][/\ phase' # "exited"
          => /\ (~getDbThrows)' <=> dbLast'.op = "connectToDb"
             /\ dbLast'.op = "connectToDb" => dbLast'.handle = dbInstance'
       /\ dbInstance # 0
          => /\ Len(clients') = Len(clients)
             /\ clientInstance' \in {clientInstance, 0}
             /\ dbInstance' \in {dbInstance, 0}]_vars

\* C22 witness: a first client was connected and closed, a second one was
\* connected, and a connectToDb call returned its handle
C22_Witness ==
    /\ phase # "exited"
    /\ clients = <<"closed", "open">>
    /\ clientInstance = 2
    /\ dbInstance = 2
    /\ dbLast = [op |-> "connectToDb", handle |-> 2]
    /\ dbCalls = <<>>

\* C23: the server listens only with a word list of at least two words, and
\* while the word list is empty (not loaded yet, or its load failed and the
\* process has exited) no request has been taken up; the block list is the
\* loaded one or, when its load failed, empty, and with an empty block list
\* the server still listens and no turn is answered PROFANITY_DETECTED.
C23_BlockListOptionalWordListFatal ==
    /\ phase = "listening" => Len(gameWordList) >= 2
    /\ gameWordList = <<>>
       => /\ phase \in {"booting", "exited"}
          /\ newGame = IdleNewGame
          /\ \A r \in Requests : turns[r] = IdleTurn
    /\ phase # "booting" /\ gameWordList # <<>>
       => blockListSet \in {{}, {toLowerCase(trim(BlockFile[i])) : i \in {1, 3}}}
    /\ blockListSet = {}
       => \A r \in Requests :
             turns[r].res # None => turns[r].res[1].errorCode # "PROFANITY_DETECTED"

\* C23 witness: the block list could not be loaded, the server listens with
\* an empty block list, and a turn with "Damn", which the dictionary knows,
\* went past the profanity check
C23_Witness ==
    \E r \in Requests :
        /\ phase = "listening"
        /\ blockListSet = {}
        /\ Admitted(r)
        /\ AllWordsValid(r)
        /\ \E i \in 1..Len(turns[r].turnInput.finalWords) :
              turns[r].turnInput.finalWords[i] = Damn
        /\ turns[r].res[1].errorCode = "NOT_FULLY_IMPLEMENTED"

====
